---- MODULE Spec2Model ----
(***************************************************************************)
(* fancontrol (src/src/main.rs): discovery of hwmon subtrees by their      *)
(* name attribute, the temperature reader, the PWM actuator operations,   *)
(* the temperature-to-duty policy and the daemon loop.                     *)
(*                                                                         *)
(* File contents are sequences of one-character strings, so that trim,    *)
(* parse and format are computed as the code computes them.  An f32 is a  *)
(* record [s, m, e] standing for (-1)^s * m * 2^e with a 24-bit           *)
(* significand m in [2^23, 2^24), or m = 0 for zero.                       *)
(***************************************************************************)
EXTENDS Integers, Sequences, FiniteSets, TLC

(***************************************************************************)
(* Text: str::trim, str::parse::<i32>, str::parse::<u8>, format!("{}")     *)
(***************************************************************************)
DigitChars == <<"0", "1", "2", "3", "4", "5", "6", "7", "8", "9">>

IsDigit(c) == \E i \in 1..10 : DigitChars[i] = c

DigitVal(c) == (CHOOSE i \in 1..10 : DigitChars[i] = c) - 1

IsWhite(c) == c \in {" ", "\n", "\t", "\r"}

\* The byte that makes a file's content invalid UTF-8.
BadByte == "\\xFF"

SetMin(S) == CHOOSE a \in S : \A b \in S : a <= b

SetMax(S) == CHOOSE a \in S : \A b \in S : b <= a

Trim(s) ==
    LET keep == {i \in 1..Len(s) : ~IsWhite(s[i])}
    IN  IF keep = {} THEN <<>> ELSE SubSeq(s, SetMin(keep), SetMax(keep))

I32_MAX == 2147483647

I32_MIN == -2147483647 - 1

U8_MAX == 255

ParseOk(v) == [ok |-> TRUE, v |-> v]

ParseErr == [ok |-> FALSE, v |-> 0]

\* Accumulates the digits ds onto acc, upwards for a positive number and
\* downwards for a negative one, failing on a non-digit and on overflow of
\* the range lo..hi (checked_mul / checked_add / checked_sub).
RECURSIVE ParseDigits(_, _, _, _, _)
ParseDigits(ds, acc, neg, lo, hi) ==
    IF ds = <<>> THEN ParseOk(acc)
    ELSE IF ~IsDigit(Head(ds)) THEN ParseErr
    ELSE LET d == DigitVal(Head(ds))
         IN  IF neg
             THEN IF acc < (lo + d + 9) \div 10 THEN ParseErr
                  ELSE ParseDigits(Tail(ds), acc * 10 - d, neg, lo, hi)
             ELSE IF acc > (hi - d) \div 10 THEN ParseErr
                  ELSE ParseDigits(Tail(ds), acc * 10 + d, neg, lo, hi)

\* <i32 as FromStr>::from_str: an optional sign, then at least one digit.
ParseI32(s) ==
    IF s = <<>> THEN ParseErr
    ELSE IF Head(s) \in {"+", "-"}
         THEN IF Len(s) = 1 THEN ParseErr
              ELSE ParseDigits(Tail(s), 0, Head(s) = "-", I32_MIN, I32_MAX)
         ELSE ParseDigits(s, 0, FALSE, I32_MIN, I32_MAX)

\* <u8 as FromStr>::from_str: an optional "+", then at least one digit; a
\* leading "-" is an invalid digit for an unsigned type.
ParseU8(s) ==
    IF s = <<>> THEN ParseErr
    ELSE IF Head(s) = "+"
         THEN IF Len(s) = 1 THEN ParseErr
              ELSE ParseDigits(Tail(s), 0, FALSE, 0, U8_MAX)
         ELSE ParseDigits(s, 0, FALSE, 0, U8_MAX)

\* format!("{}", n) of an unsigned number.
RECURSIVE FormatNat(_)
FormatNat(n) ==
    IF n < 10 THEN <<DigitChars[n + 1]>>
    ELSE FormatNat(n \div 10) \o <<DigitChars[(n % 10) + 1]>>

\* format!("{}", n) of a signed number (how the kernel prints temp1_input).
FormatInt(n) ==
    IF n >= 0 THEN FormatNat(n)
    ELSE IF n = I32_MIN THEN <<"-">> \o FormatNat(214748364) \o <<"8">>
    ELSE <<"-">> \o FormatNat(-n)

(***************************************************************************)
(* f32 arithmetic: `milli_degrees as f32 / 1000.0` and the comparisons    *)
(***************************************************************************)
Pow23 == 8388608

Pow24 == 16777216

F32Zero == [s |-> 0, m |-> 0, e |-> 0]

\* n / d rounded to the nearest integer, ties to even.
RoundNearestEven(n, d) ==
    LET q == n \div d
        r == n % d
    IN  IF 2 * r > d THEN q + 1
        ELSE IF 2 * r < d THEN q
        ELSE IF q % 2 = 0 THEN q ELSE q + 1

\* Scales a positive magnitude a * 2^e up to a 24-bit significand.
RECURSIVE NormUp(_, _)
NormUp(a, e) == IF a >= Pow23 THEN [m |-> a, e |-> e] ELSE NormUp(2 * a, e - 1)

\* The number of bits a >= 2^24 must lose to fit 24 bits.
RECURSIVE ExcessBits(_)
ExcessBits(a) == IF a < Pow24 THEN 0 ELSE 1 + ExcessBits(a \div 2)

RECURSIVE Pow2(_)
Pow2(k) == IF k = 0 THEN 1 ELSE 2 * Pow2(k - 1)

\* A significand that rounding carried up to 2^24 moves to the next binade.
Renorm(s, m, e) ==
    IF m = Pow24 THEN [s |-> s, m |-> Pow23, e |-> e + 1]
    ELSE [s |-> s, m |-> m, e |-> e]

\* `n as f32` for an i32: exact up to 2^24, rounded to nearest even above.
I32ToF32(n) ==
    IF n = 0 THEN F32Zero
    ELSE IF n = I32_MIN THEN [s |-> 1, m |-> Pow23, e |-> 8]
    ELSE LET s == IF n < 0 THEN 1 ELSE 0
             a == IF n < 0 THEN -n ELSE n
         IN  IF a < Pow24
             THEN LET u == NormUp(a, 0) IN [s |-> s, m |-> u.m, e |-> u.e]
             ELSE LET k == ExcessBits(a)
                  IN  Renorm(s, RoundNearestEven(a, Pow2(k)), k)

\* `x / 1000.0`, correctly rounded: m / 1000 = (m * 2^7 / 125) * 2^-10, and
\* one bit less when that quotient does not fit 24 bits.
F32Div1000(x) ==
    IF x.m = 0 THEN x
    ELSE IF x.m * 128 < 125 * Pow24
         THEN Renorm(x.s, RoundNearestEven(x.m * 128, 125), x.e - 10)
         ELSE Renorm(x.s, RoundNearestEven(x.m * 64, 125), x.e - 9)

\* a <= b on f32 values (neither is a NaN: both come from integers).
F32Le(a, b) ==
    LET MagLe(p, q) == p.e < q.e \/ (p.e = q.e /\ p.m <= q.m)
    IN  IF a.m = 0 THEN b.m = 0 \/ b.s = 0
        ELSE IF b.m = 0 THEN a.s = 1
        ELSE IF a.s # b.s THEN a.s = 1
        ELSE IF a.s = 0 THEN MagLe(a, b) ELSE MagLe(b, a)

\* The literals 40.0, 50.0 and 60.0 of temp_to_pwm.
F32_40 == [s |-> 0, m |-> 10485760, e |-> -18]

F32_50 == [s |-> 0, m |-> 13107200, e |-> -18]

F32_60 == [s |-> 0, m |-> 15728640, e |-> -18]

(***************************************************************************)
(* Program constants                                                       *)
(***************************************************************************)
K10TEMP_SENSOR_NAME == <<"k", "1", "0", "t", "e", "m", "p">>

NCT6799 == <<"n", "c", "t", "6", "7", "9", "9">>

NCT6775 == <<"n", "c", "t", "6", "7", "7", "5">>

NCT7802 == <<"n", "c", "t", "7", "8", "0", "2">>

AS99127F == <<"a", "s", "9", "9", "1", "2", "7", "f">>

SENSOR_CANDIDATES == <<NCT6799, NCT6775, NCT7802, AS99127F>>

\* for i in 1..=7
LAST_INDEX == 7

(***************************************************************************)
(* Bounds and the inputs drawn within them                                 *)
(***************************************************************************)
\* The longest directory listing of /sys/class/hwmon.
MaxSubtrees == 2

\* Milli-degree readings are taken this far around each threshold.
TempRadius == 5

NL == <<"\n">>

\* The name of a chip that is neither the CPU sensor nor a candidate.
AMDGPU == <<"a", "m", "d", "g", "p", "u">>

\* Subtrees the kernel may expose.  Each is one read_dir entry: `err` is the
\* io::ErrorKind of a DirEntry that could not be read, or "ok".
K10Subtree(t) ==
    [err |-> "ok",
     files |-> [name |-> K10TEMP_SENSOR_NAME \o NL, temp1_input |-> t]]

ChipSubtree(chip) ==
    [err |-> "ok",
     files |-> [name |-> chip \o NL, pwm1 |-> FormatNat(128) \o NL,
                pwm1_enable |-> <<"5">> \o NL,
                fan1_input |-> FormatNat(1200) \o NL]]

ChipWithMax(chip, max) ==
    [err |-> "ok",
     files |-> [name |-> chip \o NL, pwm1 |-> FormatNat(128) \o NL,
                pwm1_enable |-> <<"2">> \o NL, pwm1_max |-> max,
                fan1_input |-> FormatNat(1200) \o NL]]

NamelessSubtree ==
    [err |-> "ok", files |-> [fan1_input |-> FormatNat(1200) \o NL]]

BadNameSubtree ==
    [err |-> "ok", files |-> [name |-> <<BadByte>> \o NCT6775 \o NL]]

BrokenEntry == [err |-> "Other", files |-> [name |-> NCT6775 \o NL]]

\* Readings of the main specification, and an unparseable one.
MainTemps == {40000, 60001}

TempGarbage == <<"N", "/", "A">> \o NL

TempInputs == {FormatInt(t) \o NL : t \in MainTemps} \cup {TempGarbage}

Subtrees ==
    {K10Subtree(FormatInt(40000) \o NL),
     ChipSubtree(NCT6775),
     ChipWithMax(NCT6799, FormatNat(100) \o NL),
     ChipWithMax(AMDGPU, FormatNat(255) \o NL),
     NamelessSubtree, BadNameSubtree, BrokenEntry}

RECURSIVE SeqsUpTo(_, _)
SeqsUpTo(S, n) ==
    IF n = 0 THEN {<<>>}
    ELSE LET shorter == SeqsUpTo(S, n - 1)
         IN  shorter \cup {Append(q, x) : q \in shorter, x \in S}

Trees == SeqsUpTo(Subtrees, MaxSubtrees)

\* What fs::read_dir(HWMON_PATH) itself answers: "ok" or an io::ErrorKind.
RootStates == {"ok", "PermissionDenied", "NotFound"}

\* The command lines tried.  The subtrees have a pwm1 and no pwm2.
Modes == {"manual", "auto", "bogus"}

NoCommand == [op |-> "none", pwm_index |-> 0, value |-> 0, mode |-> ""]

Command(op, i, v, m) == [op |-> op, pwm_index |-> i, value |-> v, mode |-> m]

\* enum Commands
Commands ==
    {Command("Temp", 0, 0, ""), Command("ListFans", 0, 0, ""),
     Command("ListPwm", 0, 0, "")}
    \cup {Command("SetPwm", 1, 200, ""), Command("SetPwm", 2, 0, "")}
    \cup {Command("SetMode", 1, 0, m) : m \in Modes}
    \cup {Command("Daemon", 1, 0, "")}

(***************************************************************************)
(* State                                                                   *)
(***************************************************************************)
VARIABLES
    root,      \* what read_dir of /sys/class/hwmon answers
    dir,       \* its entries, in directory-iteration order, with their files
    cmd,       \* cli.command of the running process
    pc,        \* where the process is: "idle" when none runs, "exit" at
               \* the instant main returns
    path,      \* set_pwm / set_mode: the subtree found (an index of dir)
    temp,      \* run_daemon / main: the f32 read_cpu_temperature returned
    pwm,       \* run_daemon: temp_to_pwm(temp)
    result,    \* what main returned: [ok, kind]
    out,       \* the lines printed by the running command
    wlog,      \* history: the fs::write calls of the current command (of
               \* the current iteration, in run_daemon), in order
    pre,       \* history: the actuator files when it began (forgotten
               \* once something else writes them)
    ext        \* history: something else wrote the PWM files since

vars == <<root, dir, cmd, pc, path, temp, pwm, result, out, wlog, pre, ext>>

Ok == [ok |-> TRUE, kind |-> ""]

Err(kind) == [ok |-> FALSE, kind |-> kind]

(***************************************************************************)
(* The hardware control tree                                               *)
(***************************************************************************)
\* format!("pwm{}_enable", pwm_index) and its kin.
AttrName(prefix, i, suffix) == prefix \o ToString(i) \o suffix

\* Path::exists
Exists(sub, attr) == attr \in DOMAIN dir[sub].files

\* fs::read_to_string: NotFound for a missing file, InvalidData for content
\* that is not UTF-8.
ReadToString(sub, attr) ==
    IF ~Exists(sub, attr) THEN [ok |-> FALSE, kind |-> "NotFound", data |-> <<>>]
    ELSE LET data == dir[sub].files[attr]
         IN  IF \E i \in 1..Len(data) : data[i] = BadByte
             THEN [ok |-> FALSE, kind |-> "InvalidData", data |-> <<>>]
             ELSE [ok |-> TRUE, kind |-> "", data |-> data]

\* The outcomes of fs::write on a sysfs attribute: a missing attribute cannot
\* be created; an existing one takes the bytes, or the write is refused.
WriteOutcomes(sub, attr) ==
    IF Exists(sub, attr) THEN {"ok", "PermissionDenied"}
    ELSE {"PermissionDenied"}

Written(sub, attr, data) ==
    [dir EXCEPT ![sub].files = [@ EXCEPT ![attr] = data]]

Found(i) == [ok |-> TRUE, kind |-> "", path |-> i]

NotLocated(kind) == [ok |-> FALSE, kind |-> kind, path |-> 0]

\* The loop body of find_hwmon_path, from entry i on.
RECURSIVE ScanFor(_, _)
ScanFor(sensor_name, i) ==
    IF i > Len(dir) THEN NotLocated("NotFound")
    ELSE IF dir[i].err # "ok" THEN NotLocated(dir[i].err)
    ELSE LET name == ReadToString(i, "name")
         IN  IF name.ok /\ Trim(name.data) = sensor_name THEN Found(i)
             ELSE ScanFor(sensor_name, i + 1)

find_hwmon_path(sensor_name) ==
    IF root # "ok" THEN NotLocated(root) ELSE ScanFor(sensor_name, 1)

\* The loop body of find_hwmon_path_dynamic, from entry i on.
RECURSIVE ScanDynamic(_)
ScanDynamic(i) ==
    IF i > Len(dir) THEN NotLocated("NotFound")
    ELSE IF dir[i].err # "ok" THEN NotLocated(dir[i].err)
    ELSE LET name == ReadToString(i, "name")
         IN  IF /\ name.ok
                /\ \E k \in 1..Len(SENSOR_CANDIDATES) :
                       SENSOR_CANDIDATES[k] = Trim(name.data)
             THEN Found(i)
             ELSE ScanDynamic(i + 1)

\* A variant that settles for the first entry when no name matches.
find_hwmon_path_dynamic_fallback ==
    IF root # "ok" THEN NotLocated(root)
    ELSE IF ScanDynamic(1).ok \/ ScanDynamic(1).kind # "NotFound" \/ dir = <<>>
         THEN ScanDynamic(1)
         ELSE Found(1)

\* A variant that tries the candidates in their order, each over the whole
\* directory.
find_hwmon_path_dynamic_by_candidate ==
    IF root # "ok" THEN NotLocated(root)
    ELSE LET hits == {k \in 1..Len(SENSOR_CANDIDATES) :
                         ScanFor(SENSOR_CANDIDATES[k], 1).ok}
         IN  IF hits = {} THEN ScanDynamic(1)
             ELSE ScanFor(SENSOR_CANDIDATES[SetMin(hits)], 1)

\* A variant that reports every failure as NotFound.
find_hwmon_path_dynamic_not_found ==
    IF root = "ok" /\ ScanDynamic(1).ok THEN ScanDynamic(1)
    ELSE NotLocated("NotFound")

find_hwmon_path_dynamic ==
    IF root # "ok" THEN NotLocated(root) ELSE ScanDynamic(1)

(***************************************************************************)
(* Sensor reader and control policy                                        *)
(***************************************************************************)
\* read_cpu_temperature: [ok, kind, temp]
read_cpu_temperature ==
    LET found == find_hwmon_path(K10TEMP_SENSOR_NAME)
    IN  IF ~found.ok THEN [ok |-> FALSE, kind |-> found.kind, temp |-> F32Zero]
        ELSE LET raw == ReadToString(found.path, "temp1_input")
             IN  IF ~raw.ok
                 THEN [ok |-> FALSE, kind |-> raw.kind, temp |-> F32Zero]
                 ELSE LET milli_degrees == ParseI32(Trim(raw.data))
                      IN  IF ~milli_degrees.ok
                          THEN [ok |-> FALSE, kind |-> "InvalidData",
                                temp |-> F32Zero]
                          ELSE [ok |-> TRUE, kind |-> "",
                                temp |-> F32Div1000(I32ToF32(milli_degrees.v))]

\* A variant that puts each boundary into the upper bracket.
temp_to_pwm_strict(temp_c) ==
    IF ~F32Le(F32_40, temp_c) THEN 80
    ELSE IF ~F32Le(F32_50, temp_c) THEN 128
    ELSE IF ~F32Le(F32_60, temp_c) THEN 180
    ELSE 255

temp_to_pwm(temp_c) ==
    IF F32Le(temp_c, F32_40) THEN 80
    ELSE IF F32Le(temp_c, F32_50) THEN 128
    ELSE IF F32Le(temp_c, F32_60) THEN 180
    ELSE 255

(***************************************************************************)
(* Printed lines.  A percentage is kept in tenths, as {:.1} prints it; -1   *)
(* stands for the "inf" or "NaN" of a division by a max-scale of zero.     *)
(***************************************************************************)
Line(tag, i, val, pct, mode, raw) ==
    [tag |-> tag, i |-> i, val |-> val, pct |-> pct, mode |-> mode, raw |-> raw]

\* (val as f32 / max_val as f32) * 100.0, to one decimal (the exact quotient
\* is rounded; the two f32 roundings move it only next to a tie).
Percent(val, max_val) ==
    IF max_val = 0 THEN -1 ELSE RoundNearestEven(val * 1000, max_val)

\* An f32 to one decimal, in tenths.
F32Tenths(x) ==
    IF x.m = 0 \/ -x.e > 30 THEN 0
    ELSE (IF x.s = 1 THEN -1 ELSE 1) * RoundNearestEven(x.m * 10, Pow2(-x.e))

\* if max_path.exists() { read_to_string(..)?.trim().parse().unwrap_or(255) }
\* else { 255 }: [ok, kind, v]
MaxVal(sub, i) ==
    LET max_path == AttrName("pwm", i, "_max")
    IN  IF ~Exists(sub, max_path) THEN [ok |-> TRUE, kind |-> "", v |-> U8_MAX]
        ELSE LET raw == ReadToString(sub, max_path)
                 parsed == ParseU8(Trim(raw.data))
             IN  IF ~raw.ok THEN [ok |-> FALSE, kind |-> raw.kind, v |-> 0]
                 ELSE [ok |-> TRUE, kind |-> "",
                       v |-> IF parsed.ok THEN parsed.v ELSE U8_MAX]

\* The loop of list_fans from index i on: [ok, kind, lines], the lines being
\* those printed before the loop ended or failed.
RECURSIVE FanLines(_, _)
FanLines(sub, i) ==
    IF i > LAST_INDEX THEN [ok |-> TRUE, kind |-> "", lines |-> <<>>]
    ELSE LET fan_path == AttrName("fan", i, "_input")
             rest == FanLines(sub, i + 1)
         IN  IF ~Exists(sub, fan_path) THEN rest
             ELSE LET val == ReadToString(sub, fan_path)
                  IN  IF ~val.ok
                      THEN [ok |-> FALSE, kind |-> val.kind, lines |-> <<>>]
                      ELSE [rest EXCEPT !.lines =
                              <<Line("fan", i, 0, 0, "", Trim(val.data))>> \o @]

\* The loop of list_pwm from index i on: [ok, kind, lines]
RECURSIVE PwmLines(_, _)
PwmLines(sub, i) ==
    IF i > LAST_INDEX THEN [ok |-> TRUE, kind |-> "", lines |-> <<>>]
    ELSE LET pwm_path == AttrName("pwm", i, "")
             enable_path == AttrName("pwm", i, "_enable")
             rest == PwmLines(sub, i + 1)
         IN  IF ~(Exists(sub, pwm_path) /\ Exists(sub, enable_path)) THEN rest
             ELSE LET raw == ReadToString(sub, pwm_path)
                      parsed == ParseU8(Trim(raw.data))
                      val == IF parsed.ok THEN parsed.v ELSE 0
                      enable == ReadToString(sub, enable_path)
                      mode == IF Trim(enable.data) = <<"1">> THEN "manual"
                              ELSE IF Trim(enable.data) = <<"2">> THEN "auto"
                              ELSE "unknown"
                      max_val == MaxVal(sub, i)
                  IN  IF ~raw.ok
                      THEN [ok |-> FALSE, kind |-> raw.kind, lines |-> <<>>]
                      ELSE IF ~enable.ok
                      THEN [ok |-> FALSE, kind |-> enable.kind, lines |-> <<>>]
                      ELSE IF ~max_val.ok
                      THEN [ok |-> FALSE, kind |-> max_val.kind, lines |-> <<>>]
                      ELSE [rest EXCEPT !.lines =
                              <<Line("pwm", i, val, Percent(val, max_val.v),
                                     mode, <<>>)>> \o @]

(***************************************************************************)
(* The process: main runs one command and returns                          *)
(***************************************************************************)
Running == [ok |-> FALSE, kind |-> "running"]

EntryPoint(op) ==
    CASE op = "Temp" -> "temp"
      [] op = "ListFans" -> "list_fans"
      [] op = "ListPwm" -> "list_pwm"
      [] op = "SetPwm" -> "set_pwm"
      [] op = "SetMode" -> "set_mode"
      [] op = "Daemon" -> "sample"

\* main returns r to the process boundary.
Exit(r) == pc' = "exit" /\ result' = r

\* Every file of the tree but the sensor readings the kernel refreshes.
Actuators(d) ==
    [sub \in 1..Len(d) |->
        [attr \in DOMAIN d[sub].files \ {"temp1_input"} |-> d[sub].files[attr]]]

\* A command, or set_pwm in the loop of run_daemon, begins: the history
\* starts afresh.
CallBegins == wlog' = <<>> /\ pre' = Actuators(dir) /\ ext' = FALSE

\* No history is kept while no command runs and between the iterations.
NoHistory == wlog' = <<>> /\ pre' = <<>> /\ ext' = FALSE

\* The operator starts the program with a command line.
Start(c) ==
    /\ pc = "idle"
    /\ cmd' = c
    /\ pc' = EntryPoint(c.op)
    /\ result' = Running
    /\ path' = 0
    /\ temp' = F32Zero
    /\ pwm' = 0
    /\ out' = <<>>
    /\ IF c.op = "Daemon" THEN NoHistory ELSE CallBegins
    /\ UNCHANGED <<root, dir>>

\* The process is gone, and its locals with it.
Reap ==
    /\ pc = "exit"
    /\ pc' = "idle"
    /\ cmd' = NoCommand
    /\ result' = Ok
    /\ path' = 0
    /\ temp' = F32Zero
    /\ pwm' = 0
    /\ out' = <<>>
    /\ NoHistory
    /\ UNCHANGED <<root, dir>>

\* Commands::Temp
Temp ==
    /\ pc = "temp"
    /\ LET r == read_cpu_temperature
       IN  IF r.ok
           THEN /\ temp' = r.temp
                /\ out' = <<Line("temp", 0, F32Tenths(r.temp), 0, "", <<>>)>>
                /\ Exit(Ok)
           ELSE /\ Exit(Err(r.kind))
                /\ UNCHANGED <<temp, out>>
    /\ UNCHANGED <<root, dir, cmd, path, pwm, wlog, pre, ext>>

\* Commands::ListFans
ListFans ==
    /\ pc = "list_fans"
    /\ LET found == find_hwmon_path_dynamic
       IN  IF ~found.ok
           THEN Exit(Err(found.kind)) /\ UNCHANGED <<path, out>>
           ELSE LET r == FanLines(found.path, 1)
                IN  /\ path' = found.path
                    /\ out' = r.lines
                    /\ Exit(IF r.ok THEN Ok ELSE Err(r.kind))
    /\ UNCHANGED <<root, dir, cmd, temp, pwm, wlog, pre, ext>>

\* Commands::ListPwm
ListPwm ==
    /\ pc = "list_pwm"
    /\ LET found == find_hwmon_path_dynamic
       IN  IF ~found.ok
           THEN Exit(Err(found.kind)) /\ UNCHANGED <<path, out>>
           ELSE LET r == PwmLines(found.path, 1)
                IN  /\ path' = found.path
                    /\ out' = r.lines
                    /\ Exit(IF r.ok THEN Ok ELSE Err(r.kind))
    /\ UNCHANGED <<root, dir, cmd, temp, pwm, wlog, pre, ext>>

(***************************************************************************)
(* set_pwm(pwm_index, value), one step per file-system call                *)
(***************************************************************************)
\* The arguments of the running set_pwm: from the command line, or from
\* run_daemon.
SetPwmIndex == cmd.pwm_index

\* A variant that passes the command line's value in the daemon too.
SetPwmArgFromCli == cmd.value

SetPwmArg == IF cmd.op = "Daemon" THEN pwm ELSE cmd.value

\* A variant that writes the duty first.
SetPwmFirstWriteIsValue ==
    [attr |-> AttrName("pwm", SetPwmIndex, ""), data |-> FormatNat(SetPwmArg)]

\* fs::write(&enable_path, b"1")
SetPwmFirstWrite ==
    [attr |-> AttrName("pwm", SetPwmIndex, "_enable"), data |-> <<"1">>]

\* A variant that clamps the duty to the max-scale.
SetPwmSecondWriteClamped ==
    LET max_val == MaxVal(path, SetPwmIndex).v
    IN  [attr |-> AttrName("pwm", SetPwmIndex, ""),
         data |-> FormatNat(IF SetPwmArg > max_val THEN max_val ELSE SetPwmArg)]

\* fs::write(&pwm_path, format!("{}", value))
SetPwmSecondWrite ==
    [attr |-> AttrName("pwm", SetPwmIndex, ""), data |-> FormatNat(SetPwmArg)]

Logged(w) == Append(wlog, [sub |-> path, attr |-> w.attr, data |-> w.data])

\* let path = find_hwmon_path_dynamic()?;
SetPwmLocate ==
    /\ pc = "set_pwm"
    /\ LET found == find_hwmon_path_dynamic
       IN  IF found.ok
           THEN path' = found.path /\ pc' = "write_enable" /\ UNCHANGED result
           ELSE Exit(Err(found.kind)) /\ UNCHANGED path
    /\ UNCHANGED <<root, dir, cmd, temp, pwm, out, wlog, pre, ext>>

\* The first write; `?` returns its error.
SetPwmWriteEnable ==
    /\ pc = "write_enable"
    /\ \E outcome \in WriteOutcomes(path, SetPwmFirstWrite.attr) :
          IF outcome = "ok"
          THEN /\ dir' = Written(path, SetPwmFirstWrite.attr, SetPwmFirstWrite.data)
               /\ wlog' = Logged(SetPwmFirstWrite)
               /\ pc' = "write_pwm"
               /\ UNCHANGED result
          ELSE /\ Exit(Err(outcome))
               /\ UNCHANGED <<dir, wlog>>
    /\ UNCHANGED <<root, cmd, path, temp, pwm, out, pre, ext>>

\* A variant that hands the actuator back to automatic mode when the second
\* write fails.
SetPwmWriteValueRollback ==
    /\ pc = "write_pwm"
    /\ \E outcome \in WriteOutcomes(path, SetPwmSecondWrite.attr) :
          IF outcome = "ok"
          THEN /\ dir' = Written(path, SetPwmSecondWrite.attr, SetPwmSecondWrite.data)
               /\ wlog' = Logged(SetPwmSecondWrite)
               /\ pc' = "report"
               /\ UNCHANGED result
          ELSE /\ Exit(Err(outcome))
               /\ dir' = Written(path, SetPwmFirstWrite.attr, <<"2">>)
               /\ UNCHANGED wlog
    /\ UNCHANGED <<root, cmd, path, temp, pwm, out, pre, ext>>

\* The second write; `?` returns its error, and nothing is undone.
SetPwmWriteValue ==
    /\ pc = "write_pwm"
    /\ \E outcome \in WriteOutcomes(path, SetPwmSecondWrite.attr) :
          IF outcome = "ok"
          THEN /\ dir' = Written(path, SetPwmSecondWrite.attr, SetPwmSecondWrite.data)
               /\ wlog' = Logged(SetPwmSecondWrite)
               /\ pc' = "report"
               /\ UNCHANGED result
          ELSE /\ Exit(Err(outcome))
               /\ UNCHANGED <<dir, wlog>>
    /\ UNCHANGED <<root, cmd, path, temp, pwm, out, pre, ext>>

\* The max-scale is read and the percentage printed; set_pwm returns Ok(()),
\* to main or to the loop of run_daemon.
SetPwmReport ==
    /\ pc = "report"
    /\ LET max_val == MaxVal(path, SetPwmIndex)
       IN  IF max_val.ok
           THEN /\ out' = <<Line("set", SetPwmIndex, SetPwmArg,
                                 Percent(SetPwmArg, max_val.v), "", <<>>)>>
                /\ IF cmd.op = "Daemon"
                   THEN pc' = "sleep" /\ UNCHANGED result
                   ELSE Exit(Ok)
           ELSE Exit(Err(max_val.kind)) /\ UNCHANGED out
    /\ UNCHANGED <<root, dir, cmd, path, temp, pwm, wlog, pre, ext>>

(***************************************************************************)
(* set_mode(pwm_index, mode)                                               *)
(***************************************************************************)
\* A variant that takes any other mode for "auto".
ModeValLenient(mode) ==
    IF mode = "manual" THEN [ok |-> TRUE, data |-> <<"1">>]
    ELSE [ok |-> TRUE, data |-> <<"2">>]

\* match mode { "manual" => "1", "auto" => "2", _ => return Err(InvalidInput) }
ModeVal(mode) ==
    CASE mode = "manual" -> [ok |-> TRUE, data |-> <<"1">>]
      [] mode = "auto" -> [ok |-> TRUE, data |-> <<"2">>]
      [] OTHER -> [ok |-> FALSE, data |-> <<>>]

\* let path = find_hwmon_path_dynamic()?;
SetModeLocate ==
    /\ pc = "set_mode"
    /\ LET found == find_hwmon_path_dynamic
       IN  IF found.ok
           THEN path' = found.path /\ pc' = "mode_write" /\ UNCHANGED result
           ELSE Exit(Err(found.kind)) /\ UNCHANGED path
    /\ UNCHANGED <<root, dir, cmd, temp, pwm, out, wlog, pre, ext>>

\* The match on mode, then fs::write(enable_path, mode_val)?
SetModeWrite ==
    /\ pc = "mode_write"
    /\ LET enable_path == AttrName("pwm", cmd.pwm_index, "_enable")
           mode_val == ModeVal(cmd.mode)
       IN  IF ~mode_val.ok
           THEN Exit(Err("InvalidInput")) /\ UNCHANGED <<dir, wlog, out>>
           ELSE \E outcome \in WriteOutcomes(path, enable_path) :
                   IF outcome = "ok"
                   THEN /\ dir' = Written(path, enable_path, mode_val.data)
                        /\ wlog' = Logged([attr |-> enable_path,
                                           data |-> mode_val.data])
                        /\ out' = <<Line("mode", cmd.pwm_index, 0, 0,
                                         cmd.mode, <<>>)>>
                        /\ Exit(Ok)
                   ELSE /\ Exit(Err(outcome))
                        /\ UNCHANGED <<dir, wlog, out>>
    /\ UNCHANGED <<root, cmd, path, temp, pwm, pre, ext>>

(***************************************************************************)
(* run_daemon(pwm_index)                                                   *)
(***************************************************************************)
\* A variant that waits and tries again when the sensor cannot be read.
DaemonSampleRetry ==
    /\ pc = "sample"
    /\ LET r == read_cpu_temperature
       IN  IF r.ok
           THEN temp' = r.temp /\ pc' = "compute"
           ELSE pc' = "sleep" /\ UNCHANGED temp
    /\ UNCHANGED <<root, dir, cmd, path, pwm, result, out, wlog, pre, ext>>

\* let temp = read_cpu_temperature()?;
DaemonSample ==
    /\ pc = "sample"
    /\ LET r == read_cpu_temperature
       IN  IF r.ok
           THEN temp' = r.temp /\ pc' = "compute" /\ UNCHANGED result
           ELSE Exit(Err(r.kind)) /\ UNCHANGED temp
    /\ UNCHANGED <<root, dir, cmd, path, pwm, out, wlog, pre, ext>>

\* let pwm = temp_to_pwm(temp); and set_pwm(pwm_index, pwm) is entered.
DaemonCompute ==
    /\ pc = "compute"
    /\ pwm' = temp_to_pwm(temp)
    /\ pc' = "set_pwm"
    /\ CallBegins
    /\ UNCHANGED <<root, dir, cmd, path, temp, result, out>>

\* thread::sleep(Duration::from_secs(5)); and the loop starts over.
\* The locals of the loop body go out of scope.
DaemonSleep ==
    /\ pc = "sleep"
    /\ pc' = "sample"
    /\ path' = 0
    /\ temp' = F32Zero
    /\ pwm' = 0
    /\ out' = <<>>
    /\ NoHistory
    /\ UNCHANGED <<root, dir, cmd, result>>

(***************************************************************************)
(* The environment: the kernel refreshes the sensor, and the firmware or   *)
(* another program writes the PWM attributes                               *)
(***************************************************************************)
\* The kernel refreshes the reading of the CPU sensor.
SensorUpdate(t) ==
    /\ pc # "exit"
    /\ LET found == find_hwmon_path(K10TEMP_SENSOR_NAME)
       IN  /\ found.ok
           /\ Exists(found.path, "temp1_input")
           /\ dir[found.path].files["temp1_input"] # t
           /\ dir' = Written(found.path, "temp1_input", t)
    /\ UNCHANGED <<root, cmd, pc, path, temp, pwm, result, out, wlog, pre, ext>>

\* What the other writer leaves: duty 0, or automatic mode.
ExternalData(attr) == IF attr = "pwm1" THEN FormatNat(0) ELSE <<"2">>

\* The other writer drives the same actuator: the first supported chip.
ExternalWrite(attr) ==
    /\ pc # "exit"
    /\ LET found == find_hwmon_path_dynamic
       IN  /\ found.ok
           /\ Exists(found.path, attr)
           /\ dir[found.path].files[attr] # ExternalData(attr)
           /\ dir' = Written(found.path, attr, ExternalData(attr))
    /\ IF pc \in {"idle", "sample", "compute"}
       THEN UNCHANGED <<pre, ext>>
       ELSE pre' = <<>> /\ ext' = TRUE
    /\ UNCHANGED <<root, cmd, pc, path, temp, pwm, result, out, wlog>>

(***************************************************************************)
(* Specification                                                           *)
(***************************************************************************)
Init ==
    /\ root \in RootStates
    /\ dir \in Trees
    /\ root # "ok" => dir = <<>>     \* nothing of an unreadable root is seen
    /\ cmd = NoCommand
    /\ pc = "idle"
    /\ path = 0
    /\ temp = F32Zero
    /\ pwm = 0
    /\ result = Ok
    /\ out = <<>>
    /\ wlog = <<>>
    /\ pre = <<>>
    /\ ext = FALSE

Next ==
    \/ \E c \in Commands : Start(c)
    \/ Reap
    \/ Temp
    \/ ListFans
    \/ ListPwm
    \/ SetPwmLocate
    \/ SetPwmWriteEnable
    \/ SetPwmWriteValue
    \/ SetPwmReport
    \/ SetModeLocate
    \/ SetModeWrite
    \/ DaemonSample
    \/ DaemonCompute
    \/ DaemonSleep
    \/ \E t \in TempInputs : SensorUpdate(t)
    \/ \E attr \in {"pwm1", "pwm1_enable"} : ExternalWrite(attr)

Spec == Init /\ [][Next]_vars

(***************************************************************************)
(* The policy alone: the daemon has just started over one CPU sensor whose *)
(* reading is drawn from PolicyInputs; it samples and computes the duty.   *)
(***************************************************************************)
Thresholds == {40000, 50000, 60000}

PolicyTemps ==
    {th + d : th \in Thresholds, d \in (-TempRadius)..TempRadius}
    \cup {I32_MIN, -273150, -5000, -1, 0, 1, 999, 25000, 45000, 55000,
          100000, 16777217, I32_MAX}

\* The texts that read as the reading m.
Spellings(m) ==
    {FormatInt(m) \o NL, <<" ">> \o FormatInt(m) \o <<" ">> \o NL}
    \cup (IF m >= 0 THEN {<<"+">> \o FormatInt(m)} ELSE {})

\* Texts that are not an i32.
Unparseable ==
    {TempGarbage, <<>>, NL, <<"-">>, <<"4", "5", ".", "0">>,
     <<"2", "1", "4", "7", "4", "8", "3", "6", "4", "8">>,
     <<"-", "2", "1", "4", "7", "4", "8", "3", "6", "4", "9">>,
     <<"4", " ", "5">>}

PolicyInputs == UNION {Spellings(m) : m \in PolicyTemps} \cup Unparseable

InitPolicy ==
    /\ root = "ok"
    /\ dir \in {<<K10Subtree(t)>> : t \in PolicyInputs}
    /\ cmd = Command("Daemon", 1, 0, "")
    /\ pc = "sample"
    /\ path = 0
    /\ temp = F32Zero
    /\ pwm = 0
    /\ result = Running
    /\ out = <<>>
    /\ wlog = <<>>
    /\ pre = <<>>
    /\ ext = FALSE

NextPolicy == DaemonSample \/ DaemonCompute

SpecPolicy == InitPolicy /\ [][NextPolicy]_vars

(***************************************************************************)
(* Vocabulary of the properties                                            *)
(***************************************************************************)
Candidates == {SENSOR_CANDIDATES[k] : k \in 1..Len(SENSOR_CANDIDATES)}

\* Entry i is readable and its name attribute holds the identifier.
Named(i, ids) ==
    /\ dir[i].err = "ok"
    /\ "name" \in DOMAIN dir[i].files
    /\ \E id \in ids : dir[i].files["name"] = id \o NL

\* What a scan for the identifiers ids must answer: the first entry, in
\* directory order, that is broken or carries one of them decides.
Expected(ids) ==
    LET deciding == {i \in 1..Len(dir) : dir[i].err # "ok" \/ Named(i, ids)}
    IN  IF root # "ok" THEN NotLocated(root)
        ELSE IF deciding = {} THEN NotLocated("NotFound")
        ELSE IF dir[SetMin(deciding)].err # "ok"
             THEN NotLocated(dir[SetMin(deciding)].err)
             ELSE Found(SetMin(deciding))

\* The commands that locate a chip by the candidate list.
ActuatorOps == {"SetPwm", "SetMode", "ListPwm", "ListFans"}

\* set_pwm is the running operation.
SetPwmRuns == cmd.op \in {"SetPwm", "Daemon"}

EnableAttr == IF cmd.pwm_index = 1 THEN "pwm1_enable" ELSE "pwm2_enable"

ValueAttr == IF cmd.pwm_index = 1 THEN "pwm1" ELSE "pwm2"

\* The duty set_pwm was called with.
Duty == IF cmd.op = "Daemon" THEN pwm ELSE cmd.value

\* The program wrote nothing, and the actuator files are as they were.
NothingWritten == wlog = <<>> /\ (~ext => Actuators(dir) = pre)

\* The max-scale of subtree sub for the running command's index.
ScaleOf(sub) ==
    IF cmd.pwm_index = 1 /\ "pwm1_max" \in DOMAIN dir[sub].files
    THEN CHOOSE m \in 0..U8_MAX : dir[sub].files["pwm1_max"] = FormatNat(m) \o NL
    ELSE U8_MAX

\* The step function of the policy on integer milli-degrees.
StepDuty(m) ==
    IF m <= 40000 THEN 80
    ELSE IF m <= 50000 THEN 128
    ELSE IF m <= 60000 THEN 180
    ELSE 255

DaemonDuties == {80, 128, 180, 255}

(***************************************************************************)
(* C1: temp_to_pwm is a total step function of the reading: up to 40.0    *)
(* degrees it gives 80, above 40.0 and up to 50.0 it gives 128, above     *)
(* 50.0 and up to 60.0 it gives 180, above 60.0 it gives 255; each        *)
(* boundary belongs to the lower bracket.  Every reading that parses gets *)
(* a duty; only an unparseable one ends the run, with InvalidData.         *)
(***************************************************************************)
C1_StepFunction ==
    /\ pc = "set_pwm" =>
          \A m \in PolicyTemps :
             dir[1].files["temp1_input"] \in Spellings(m) => pwm = StepDuty(m)
    /\ pc = "exit" =>
          /\ dir[1].files["temp1_input"] \in Unparseable
          /\ result = Err("InvalidData")

C1_Witness ==
    /\ pc = "set_pwm"
    /\ dir[1].files["temp1_input"] = FormatInt(50000) \o NL
    /\ pwm = 128

\* set_mode has returned from a call with an invalid mode.
InvalidModeReturned ==
    pc = "exit" /\ cmd.op = "SetMode" /\ cmd.mode \notin {"manual", "auto"}

(***************************************************************************)
(* C2, as claimed: set_mode with a mode other than "manual" and "auto"    *)
(* fails with InvalidInput and writes nothing, in every state of the      *)
(* tree, also when no subtree matches a candidate.                         *)
(***************************************************************************)
C2_Original ==
    InvalidModeReturned => result = Err("InvalidInput") /\ NothingWritten

(***************************************************************************)
(* C2, amended: set_mode with a mode other than "manual" and "auto"       *)
(* writes nothing; it fails with InvalidInput when the discovery finds a  *)
(* supported subtree, and with the error of the discovery (NotFound when  *)
(* no subtree matches) otherwise, as the discovery runs first.             *)
(***************************************************************************)
C2_Amended ==
    InvalidModeReturned =>
        /\ NothingWritten
        /\ result = IF Expected(Candidates).ok THEN Err("InvalidInput")
                    ELSE Err(Expected(Candidates).kind)

C2_Witness ==
    /\ InvalidModeReturned
    /\ result = Err("InvalidInput")
    /\ path # 0
    /\ EnableAttr \in DOMAIN dir[path].files

\* A write of set_pwm is the enable write, first, or the value write, second.
C3_Step ==
    (SetPwmRuns /\ wlog' # wlog /\ wlog' # <<>>) =>
        LET w == wlog'[Len(wlog')]
        IN  /\ Len(wlog') = Len(wlog) + 1
            /\ w.attr \in {EnableAttr, ValueAttr}
            /\ dir'[w.sub].files[w.attr] = w.data
            /\ w.attr = EnableAttr => wlog = <<>> /\ w.data = <<"1">>
            /\ w.attr = ValueAttr =>
                  /\ wlog = <<[sub |-> w.sub, attr |-> EnableAttr, data |-> <<"1">>]>>
                  /\ w.data = FormatNat(Duty)

\* Once both are written the files hold them.
C3_After ==
    (SetPwmRuns /\ Len(wlog) = 2 /\ ~ext) =>
        /\ dir[path].files[EnableAttr] = <<"1">>
        /\ dir[path].files[ValueAttr] = FormatNat(Duty)

(***************************************************************************)
(* C3: set_pwm writes "1" to pwmN_enable before it writes the value to    *)
(* pwmN: the value is written only after the enable write of the same     *)
(* call, to the same subtree; and once both writes succeeded pwmN_enable  *)
(* holds "1" and pwmN the value (as long as nothing else wrote them).      *)
(***************************************************************************)
C3_EnableFirst == [][C3_Step /\ C3_After']_vars

C3_Witness ==
    /\ pc = "exit"
    /\ cmd = Command("SetPwm", 1, 200, "")
    /\ result = Ok
    /\ ~ext
    /\ "pwm1_max" \notin DOMAIN dir[path].files
    /\ dir[path].files["pwm1_enable"] = <<"1">>
    /\ dir[path].files["pwm1"] = <<"2", "0", "0">>
    /\ out[1].pct = 784

(***************************************************************************)
(* C4: set_pwm fails with the I/O error when one of its two writes fails, *)
(* and undoes nothing: when the enable write succeeded and the value      *)
(* write failed, pwmN_enable is left at "1" and pwmN and every other      *)
(* attribute keep their values; when the enable write failed, nothing is  *)
(* written at all (as long as nothing else wrote the files).               *)
(***************************************************************************)
C4_NoRollback ==
    (pc = "exit" /\ SetPwmRuns /\ path # 0 /\ Len(wlog) < 2) =>
        /\ result = Err("PermissionDenied")
        /\ ~ext =>
              IF Len(wlog) = 1
              THEN /\ wlog[1].attr = EnableAttr
                   /\ Actuators(dir) = [pre EXCEPT ![path][EnableAttr] = <<"1">>]
              ELSE Actuators(dir) = pre

C4_Witness ==
    /\ pc = "exit"
    /\ cmd.op = "SetPwm"
    /\ path # 0
    /\ Len(wlog) = 1
    /\ ~ext
    /\ result = Err("PermissionDenied")
    /\ pre[path]["pwm1_enable"] # <<"1">>
    /\ dir[path].files["pwm1_enable"] = <<"1">>
    /\ dir[path].files["pwm1"] = pre[path]["pwm1"]

\* A readable tree of one or more subtrees, none of them supported.
NoneMatches ==
    /\ root = "ok"
    /\ dir # <<>>
    /\ \A i \in 1..Len(dir) : dir[i].err = "ok" /\ ~Named(i, Candidates)

(***************************************************************************)
(* C5: when the tree holds one or more subtrees, all readable, and none   *)
(* carries a candidate identifier, set_pwm, set_mode, list_pwm and        *)
(* list_fans fail with NotFound, print nothing and write no attribute.     *)
(***************************************************************************)
C5_NoMatchNoWrite ==
    (pc = "exit" /\ cmd.op \in ActuatorOps /\ NoneMatches) =>
        /\ result = Err("NotFound")
        /\ NothingWritten
        /\ out = <<>>

C5_Witness ==
    /\ pc = "exit"
    /\ cmd.op = "SetPwm"
    /\ NoneMatches
    /\ Len(dir) = 2
    /\ "pwm1" \in DOMAIN dir[1].files
    /\ result = Err("NotFound")

\* What the sample must answer: "ok" or the error kind.
SampleOutcome ==
    LET sensor == Expected({K10TEMP_SENSOR_NAME})
    IN  IF ~sensor.ok THEN sensor.kind
        ELSE IF "temp1_input" \notin DOMAIN dir[sensor.path].files THEN "NotFound"
        ELSE IF dir[sensor.path].files["temp1_input"] = TempGarbage
             THEN "InvalidData"
             ELSE "ok"

\* The loop is left with an error, and the step wrote nothing.
Aborts == pc' = "exit" /\ ~result'.ok /\ dir' = dir /\ wlog' = wlog

\* Each step of the daemon against the course of its loop.
C6_Step ==
    (cmd.op = "Daemon" /\ pc' # pc) =>
        CASE pc = "sample" ->
                IF SampleOutcome = "ok" THEN pc' = "compute" /\ dir' = dir
                ELSE Aborts /\ result' = Err(SampleOutcome)
          [] pc = "compute" -> pc' = "set_pwm" /\ dir' = dir
          [] pc = "set_pwm" ->
                IF Expected(Candidates).ok THEN pc' = "write_enable" /\ dir' = dir
                ELSE Aborts /\ result' = Err(Expected(Candidates).kind)
          [] pc = "write_enable" -> (pc' = "write_pwm" /\ Len(wlog') = 1) \/ Aborts
          [] pc = "write_pwm" -> (pc' = "report" /\ Len(wlog') = 2) \/ Aborts
          [] pc = "report" -> (pc' = "sleep" /\ dir' = dir) \/ Aborts
          [] pc = "sleep" -> pc' = "sample" /\ dir' = dir
          [] pc = "exit" -> pc' = "idle" /\ dir' = dir /\ ~result.ok
          [] OTHER -> FALSE

(***************************************************************************)
(* C6: in run_daemon a failure of the sample or of set_pwm ends the loop  *)
(* at once with that error, and then nothing more is sampled, written or  *)
(* slept; and the loop ends in no other way: while no step fails it goes  *)
(* from the sample to the computation, to set_pwm, to the sleep and back  *)
(* to the sample.                                                          *)
(***************************************************************************)
C6_FailStop == [][C6_Step]_vars

C6_Witness ==
    /\ pc = "exit"
    /\ cmd.op = "Daemon"
    /\ result = Err("InvalidData")
    /\ Expected(Candidates).ok
    /\ dir[Expected(Candidates).path].files["pwm1"] = FormatNat(255)

\* The writes of pwmN in the history, and the duty each wrote.
ValueWrites == {k \in 1..Len(wlog) : wlog[k].attr = ValueAttr}

WrittenDuty(k) == CHOOSE v \in 0..U8_MAX : wlog[k].data = FormatNat(v)

(***************************************************************************)
(* C7, as claimed: every duty written to pwmN lies within the subtree's   *)
(* max-scale: in 0..pwmN_max when pwmN_max is present (so that the        *)
(* reported percent never exceeds 100), in 0..255 when it is absent.       *)
(***************************************************************************)
C7_Original ==
    SetPwmRuns =>
        /\ \A k \in ValueWrites : WrittenDuty(k) \in 0..ScaleOf(wlog[k].sub)
        /\ out # <<>> => out[1].pct <= 1000

(***************************************************************************)
(* C7, amended: every duty written to pwmN is the u8 that set_pwm was     *)
(* called with, unscaled and unclamped: it lies in 0..255 whether or not  *)
(* pwmN_max is present.  The max-scale (255 when absent) enters only the  *)
(* reported percent, value / max * 100, which exceeds 100 when the value  *)
(* exceeds pwmN_max.                                                       *)
(***************************************************************************)
C7_Amended ==
    SetPwmRuns =>
        /\ \A k \in ValueWrites :
              wlog[k].data = FormatNat(Duty) /\ Duty \in 0..U8_MAX
        /\ out # <<>> =>
              /\ out[1].val = Duty
              /\ out[1].pct = RoundNearestEven(Duty * 1000, ScaleOf(path))

C7_Witness ==
    /\ pc = "exit"
    /\ cmd = Command("SetPwm", 1, 200, "")
    /\ result = Ok
    /\ "pwm1_max" \in DOMAIN dir[path].files
    /\ dir[path].files["pwm1_max"] = FormatNat(100) \o NL
    /\ wlog[2].data = FormatNat(200)
    /\ out[1].pct = 2000

(***************************************************************************)
(* C8: the discovery answers the first entry, in directory order, whose   *)
(* trimmed name matches: entries without a readable name are passed over, *)
(* and among several supported chips the first in the directory is taken, *)
(* wherever its identifier stands in the candidate list.  The temperature *)
(* is likewise read from the first k10temp entry.                          *)
(***************************************************************************)
C8_FirstInDirectoryOrder ==
    /\ path # 0 => Expected(Candidates) = Found(path)
    /\ (pc = "exit" /\ cmd.op \in ActuatorOps /\ path = 0) =>
          ~Expected(Candidates).ok
    /\ (pc = "exit" /\ cmd.op = "Temp" /\ result.ok) =>
          /\ Expected({K10TEMP_SENSOR_NAME}).ok
          /\ \E m \in MainTemps :
                /\ dir[Expected({K10TEMP_SENSOR_NAME}).path].files["temp1_input"]
                      = FormatInt(m) \o NL
                /\ out[1].val = RoundNearestEven(m, 100)

C8_Witness ==
    /\ pc = "write_enable"
    /\ Len(dir) = 2
    /\ Named(1, {SENSOR_CANDIDATES[2]})
    /\ Named(2, {SENSOR_CANDIDATES[1]})
    /\ path = 1

\* An actuator operation returned without having found a subtree.
DiscoveryFailed == pc = "exit" /\ cmd.op \in ActuatorOps /\ path = 0

(***************************************************************************)
(* C9, as claimed: the discovery fails with NotFound in both cases: when  *)
(* no entry matches, and when the root or one of its entries cannot be    *)
(* read, whatever the cause of the read failure.                           *)
(***************************************************************************)
C9_Original == DiscoveryFailed => result = Err("NotFound")

(***************************************************************************)
(* C9, amended: the discovery fails with NotFound when the root and its   *)
(* entries are read and no entry matches; when the root or an entry       *)
(* before the first match cannot be read, it fails with the error of that *)
(* read, unchanged (PermissionDenied for a permission error, NotFound     *)
(* only for a missing root).                                               *)
(***************************************************************************)
C9_Amended ==
    /\ DiscoveryFailed =>
          /\ ~Expected(Candidates).ok
          /\ result = Err(Expected(Candidates).kind)
    /\ (pc = "exit" /\ cmd.op \in {"Temp", "Daemon"} /\ root # "ok") =>
          result = Err(root)

C9_Witness ==
    /\ DiscoveryFailed
    /\ root = "PermissionDenied"
    /\ result = Err("PermissionDenied")

\* The f32 that the reading m becomes.
Reading(m) == F32Div1000(I32ToF32(m))

\* Each step of the daemon against the data it must carry.
C10_Step ==
    cmd.op = "Daemon" =>
        /\ (pc = "sample" /\ pc' = "compute") =>
              \E m \in MainTemps :
                 /\ dir[Expected({K10TEMP_SENSOR_NAME}).path].files["temp1_input"]
                       = FormatInt(m) \o NL
                 /\ temp' = Reading(m)
        /\ (pc = "compute" /\ pc' # pc) =>
              \E m \in MainTemps : temp = Reading(m) /\ pwm' = StepDuty(m)
        /\ pc \in {"set_pwm", "write_enable", "write_pwm"} =>
              pwm' = pwm /\ pwm \in DaemonDuties
        /\ (wlog' # wlog /\ wlog' # <<>>) =>
              LET w == wlog'[Len(wlog')]
              IN  /\ dir'[w.sub].files[w.attr] = w.data
                  /\ \/ w.attr = EnableAttr /\ w.data = <<"1">>
                     \/ w.attr = ValueAttr /\ w.data = FormatNat(pwm)
        /\ (pc = "report" /\ pc' = "sleep") =>
              /\ Len(wlog) = 2
              /\ wlog[1] = [sub |-> path, attr |-> EnableAttr, data |-> <<"1">>]
              /\ wlog[2] = [sub |-> path, attr |-> ValueAttr,
                            data |-> FormatNat(pwm)]

(***************************************************************************)
(* C10: in every iteration of run_daemon the temperature is read afresh   *)
(* from the first k10temp entry, the duty is temp_to_pwm of that reading, *)
(* pwmN_enable is written "1" and then pwmN that duty; the daemon writes  *)
(* no duty outside 80, 128, 180, 255, whatever another writer left in the *)
(* files between the iterations.                                           *)
(***************************************************************************)
C10_FreshDutyEachIteration == [][C10_Step]_vars

C10_Witness ==
    /\ pc = "sleep"
    /\ ~ext
    /\ pre[path]["pwm1"] = FormatNat(0)
    /\ pre[path]["pwm1_enable"] = <<"2">>
    /\ dir[path].files["pwm1_enable"] = <<"1">>
    /\ dir[path].files["pwm1"] = FormatNat(255)

====
